---- MODULE Spec2Model ----
(***************************************************************************)
(* A model of the per-listener routing pipeline of tcpproxy: the STARTTLS  *)
(* negotiation hooks for SMTP and IMAP (starttls_smtp.go,                  *)
(* starttls_imap.go), the registration of SNI routes, the ordered          *)
(* evaluation of the rule list, the ACME tls-sni-01 race, and the sniffing *)
(* of the ClientHello record through a peekable reader (sni.go); and the   *)
(* static routing file (Config.Read, Config.Match).                        *)
(*                                                                         *)
(* Text lines and hostnames are TLA+ strings; the string functions of the  *)
(* Go code (fmt.Sscanf, strings.Cut, strings.HasSuffix) are operators that *)
(* walk the characters as the library does.                                *)
(***************************************************************************)
EXTENDS Integers, Sequences, FiniteSets, TLC

VARIABLES
    \* ---- one connection handed to a negotiation hook ----
    hook,        \* which NegotiateFunc runs: "smtp", "imap", or "none"
    serverName,  \* the serverName captured by negotiateSMTPStartTLS's closure
    hookPc,      \* where the hook is: "start", "readEhlo", "readCmd", "done"
    connIn,      \* lines the hook has read from the connection, in order
    connOut,     \* lines the hook has written to the connection, in order
    connLog,     \* reads and writes interleaved: <<"in", l>>, <<"out", l>>,
                 \* and <<"err", "">> for a ReadLine that returned an error
    connClosed,  \* TRUE once the underlying net.Conn was closed
    hookRet,     \* the hook's return value: "pending", "true", "false"
    clientName,  \* what fmt.Sscanf stored in greetSMTP's clientName
    \* ---- the route table of one listener (config) and the id source ----
    cfg,         \* routes, acmeTargets, stopACME, negotiateFunc
    nextId,      \* the next value uuid.New() hands out
    \* ---- one accepted connection being routed ----
    phase,       \* "setup", "serving" (a connection is being routed), "done"
    br,          \* the peekable reader of the connection, as what
                 \* ReadClientHelloInfo finds in it: err and ServerName
    ruleIdx,     \* the position in cfg.routes of the rule evaluated next
    evaluated,   \* the rules evaluated so far: [idx, target], in order
    chosen,      \* the target the connection was handed to, Nil if none
    \* ---- the ACME race of the connection ----
    acmePc,      \* acmeMatch.match: "idle", "racing", "returned"
    behav,       \* per attempt, what the backend does with the handshake
    attPc,       \* per attempt: "running" or "done"
    pipeOpen,    \* per attempt: its end of the net.Pipe is still open
    pipeDeadline,\* per attempt: conn.SetDeadline was called on its pipe end
    ch,          \* the buffered result channel, oldest first
    nrecv,       \* how many results acmeMatch.match has received
    acmeRet,     \* the target acmeMatch.match returned, Nil for none
    \* ---- the bytes of one connection under the sniffing functions ----
    stream,      \* the bytes the connection delivers before it ends
    rpos,        \* the read position of the peekable reader in stream
    sniffs,      \* the sniffing calls made so far and what each returned
    \* ---- the static routing Config, one Read and one Match at a time ----
    conf,        \* the Config: mu (who holds the mutex) and routes
    readPc,      \* Read: "idle", "scanning", "locking", "assigning"
    input,       \* the io.Reader of the Read: its lines, and whether the
                 \* scanner ends with an error after them
    scanned,     \* how many lines of input the scanner has delivered
    newRoutes,   \* the local variable routes of Read
    readRet,     \* what the last Read returned: "none", "nil", "err"
    routesBefore,\* conf.routes when the current or last Read was called
    matchPc,     \* Match: "idle" or "ranging" (it holds the mutex)
    matchHost,   \* the argument of the Match
    ranged,      \* the slice the range statement of Match took
    matchIdx,    \* the position in ranged of the route tested next
    matchRet     \* what the last Match returned, "none" before any

hookVars == <<hook, serverName, hookPc, connIn, connOut, connLog,
              connClosed, hookRet, clientName>>
cfgVars  == <<cfg, nextId>>
connVars == <<phase, br, ruleIdx, evaluated, chosen>>
acmeVars == <<acmePc, behav, attPc, pipeOpen, pipeDeadline, ch, nrecv,
              acmeRet>>

sniffVars == <<stream, rpos, sniffs>>

fileVars == <<conf, readPc, input, scanned, newRoutes, readRet,
              routesBefore, matchPc, matchHost, ranged, matchIdx,
              matchRet>>

vars == <<hookVars, cfgVars, connVars, acmeVars, sniffVars, fileVars>>

----------------------------------------------------------------------------
(* Strings *)

\* the i-th character of s, as a one-character string
CharAt(s, i) == SubSeq(s, i, i)

\* strings.HasPrefix
HasPrefix(s, prefix) ==
    /\ Len(s) >= Len(prefix)
    /\ SubSeq(s, 1, Len(prefix)) = prefix

\* strings.HasSuffix
HasSuffix(s, suffix) ==
    /\ Len(s) >= Len(suffix)
    /\ SubSeq(s, Len(s) - Len(suffix) + 1, Len(s)) = suffix

\* the positions of s that hold a space
SpacePositions(s) == {i \in 1..Len(s) : CharAt(s, i) = " "}

\* the position of the first space of s, 0 when there is none
IndexSpace(s) ==
    IF SpacePositions(s) = {} THEN 0
    ELSE CHOOSE i \in SpacePositions(s) : \A j \in SpacePositions(s) : i <= j

\* s without its leading spaces
RECURSIVE SkipSpace(_)
SkipSpace(s) ==
    IF s = "" THEN ""
    ELSE IF Head(s) = " " THEN SkipSpace(Tail(s))
    ELSE s

\* the run of non-space characters at the start of s (the %s verb of
\* package fmt reads up to the next space or the end of the input)
Token(s) ==
    IF IndexSpace(s) = 0 THEN s ELSE SubSeq(s, 1, IndexSpace(s) - 1)

\* Cut that splits at the last space instead of the first
Cut_lastSpace(s) ==
    LET last == IF SpacePositions(s) = {} THEN 0
                ELSE CHOOSE i \in SpacePositions(s) :
                         \A j \in SpacePositions(s) : i >= j
    IN  IF last = 0
        THEN [before |-> s, after |-> "", found |-> FALSE]
        ELSE [before |-> SubSeq(s, 1, last - 1),
              after  |-> SubSeq(s, last + 1, Len(s)),
              found  |-> TRUE]

\* strings.Cut(s, " "): before, after, found
Cut(s) ==
    IF IndexSpace(s) = 0
    THEN [before |-> s, after |-> "", found |-> FALSE]
    ELSE [before |-> SubSeq(s, 1, IndexSpace(s) - 1),
          after  |-> SubSeq(s, IndexSpace(s) + 1, Len(s)),
          found  |-> TRUE]

\* fmt.Sscanf(l, "EHLO %s", &clientName): n is the number of items stored,
\* err whether an error is returned.  The literal EHLO must match the input;
\* the space of the format must find a space or the end of the input and
\* then eats every following space; %s needs at least one character and
\* stops at the next space.  Input left over after the format is exhausted
\* is not an error.
Sscanf(l) ==
    IF ~HasPrefix(l, "EHLO")
    THEN [n |-> 0, err |-> TRUE, val |-> ""]
    ELSE LET rest == SubSeq(l, 5, Len(l)) IN
         IF rest # "" /\ Head(rest) # " "
         THEN [n |-> 0, err |-> TRUE, val |-> ""]
         ELSE IF SkipSpace(rest) = ""
         THEN [n |-> 0, err |-> TRUE, val |-> ""]
         ELSE [n |-> 1, err |-> FALSE, val |-> Token(SkipSpace(rest))]

----------------------------------------------------------------------------
(* What a client may send, and the names a hook may be configured with *)

ClientLines ==
    { "EHLO client1", "EHLO", "EHLO ", "EHLO a b", "EHLO  c", "EHLOx",
      "HELO client1", "ehlo c", "", "STARTTLS", "STARTTLS ", "starttls",
      "NOOP", "a1 STARTTLS", "a1 LOGIN user pass", "a1 NOOP", "a1",
      " STARTTLS", "a1  STARTTLS", "a1 STARTTLS x" }

ServerNames == { "mail.example", "mx" }

----------------------------------------------------------------------------
(* SMTP: starttls_smtp.go *)

\* greetSMTP after its ReadLine returned: readErr is the read's error, l the
\* line.  The result is the client name and whether an error is returned.
greetSMTP(readErr, l) ==
    IF readErr THEN [clientName |-> "", err |-> TRUE]
    ELSE IF Sscanf(l).err THEN [clientName |-> "", err |-> TRUE]
    ELSE [clientName |-> Sscanf(l).val, err |-> FALSE]

\* negotiateSMTPTLS that accepts any line starting with STARTTLS
negotiateSMTPTLS_prefix(readErr, cmd) ==
    IF readErr THEN [out |-> <<>>, err |-> TRUE]
    ELSE IF HasPrefix(cmd, "STARTTLS")
    THEN [out |-> <<"220 Go ahead">>, err |-> FALSE]
    ELSE [out |-> <<>>, err |-> TRUE]

\* negotiateSMTPTLS after its ReadLine returned: the lines it still writes
\* and whether it returns an error.
negotiateSMTPTLS(readErr, cmd) ==
    IF readErr THEN [out |-> <<>>, err |-> TRUE]
    ELSE IF cmd = "STARTTLS" THEN [out |-> <<"220 Go ahead">>, err |-> FALSE]
    ELSE [out |-> <<>>, err |-> TRUE]

\* the hook passing the listener's configured name instead of its own
smtpServerName_cfg == cfg.negotiateFunc.serverName

\* the name the hook passes to negotiateSMTPTLS: the serverName of its closure
smtpServerName == serverName

\* how the hook returns once greetSMTP or negotiateSMTPTLS returned err:
\* true on nil, and otherwise t.Close() and false
negotiateSMTPStartTLS(err) ==
    [ret |-> IF err THEN "false" ELSE "true", closed |-> err]

\* c.Writer.PrintfLine of each line of ls, in order
Emit(log, ls) == log \o [i \in 1..Len(ls) |-> <<"out", ls[i]>>]

\* the hook starts: textproto.NewConn, and greetSMTP writes the greeting and
\* blocks in ReadLine
SMTPGreet ==
    /\ hook = "smtp" /\ hookPc = "start"
    /\ LET line == "220 " \o serverName \o " Service ready" IN
         /\ connOut' = Append(connOut, line)
         /\ connLog' = Emit(connLog, <<line>>)
    /\ hookPc' = "readEhlo"
    /\ UNCHANGED <<hook, serverName, connIn, connClosed, hookRet, clientName>>
    /\ UNCHANGED <<cfgVars, connVars, acmeVars, sniffVars, fileVars>>

\* greetSMTP's ReadLine returns.  On an error of greetSMTP the hook closes
\* the connection and returns false; otherwise negotiateSMTPTLS writes the
\* two 250 lines and blocks in ReadLine.
SMTPEhlo ==
    /\ hook = "smtp" /\ hookPc = "readEhlo"
    /\ \E readErr \in BOOLEAN :
       \E l \in IF readErr THEN {""} ELSE ClientLines :
         LET g    == greetSMTP(readErr, l)
             in1  == IF readErr THEN connIn ELSE Append(connIn, l)
             log1 == Append(connLog, IF readErr THEN <<"err", "">> ELSE <<"in", l>>)
             ls   == << "250-" \o smtpServerName \o " G'day!", "250 STARTTLS" >>
         IN  /\ connIn' = in1
             /\ clientName' = g.clientName
             /\ IF g.err
                THEN /\ connOut' = connOut
                     /\ connLog' = log1
                     /\ connClosed' = negotiateSMTPStartTLS(TRUE).closed
                     /\ hookRet' = negotiateSMTPStartTLS(TRUE).ret
                     /\ hookPc' = "done"
                ELSE /\ connOut' = connOut \o ls
                     /\ connLog' = Emit(log1, ls)
                     /\ connClosed' = connClosed
                     /\ hookRet' = hookRet
                     /\ hookPc' = "readCmd"
    /\ UNCHANGED <<hook, serverName>>
    /\ UNCHANGED <<cfgVars, connVars, acmeVars, sniffVars, fileVars>>

\* negotiateSMTPTLS's ReadLine returns; the hook returns true on STARTTLS
\* and otherwise closes the connection and returns false.
SMTPCommand ==
    /\ hook = "smtp" /\ hookPc = "readCmd"
    /\ \E readErr \in BOOLEAN :
       \E cmd \in IF readErr THEN {""} ELSE ClientLines :
         LET r    == negotiateSMTPTLS(readErr, cmd)
             log1 == Append(connLog, IF readErr THEN <<"err", "">> ELSE <<"in", cmd>>)
         IN  /\ connIn' = IF readErr THEN connIn ELSE Append(connIn, cmd)
             /\ connOut' = connOut \o r.out
             /\ connLog' = Emit(log1, r.out)
             /\ connClosed' = negotiateSMTPStartTLS(r.err).closed
             /\ hookRet' = negotiateSMTPStartTLS(r.err).ret
    /\ hookPc' = "done"
    /\ UNCHANGED <<hook, serverName, clientName>>
    /\ UNCHANGED <<cfgVars, connVars, acmeVars, sniffVars, fileVars>>

----------------------------------------------------------------------------
(* IMAP: starttls_imap.go *)

ImapBanner ==
    "* OK [CAPABILITY IMAP4rev1 STARTTLS LOGINDISABLED] IMAP4rev1 Service Ready"

\* negotiateIMAPTLS after its ReadLine returned: the lines it still writes
\* and whether it returns an error.
negotiateIMAPTLS(readErr, cmdString) ==
    IF readErr THEN [out |-> <<>>, err |-> TRUE]
    ELSE LET tag == Cut(cmdString).before
             cmd == Cut(cmdString).after
         IN  IF ~Cut(cmdString).found THEN [out |-> <<>>, err |-> TRUE]
             ELSE IF cmd = "STARTTLS"
             THEN [out |-> << tag \o " OK Begin TLS negotiation now" >>,
                   err |-> FALSE]
             ELSE [out |-> << tag \o " " \o cmd \o " Unsupported command" >>,
                   err |-> TRUE]

\* the hook returning false without closing the connection
negotiateIMAPStartTLS_noClose(err) ==
    [ret |-> IF err THEN "false" ELSE "true", closed |-> FALSE]

\* how the hook returns once negotiateIMAPTLS returned err: true on nil, and
\* otherwise t.Close() and false
negotiateIMAPStartTLS(err) ==
    [ret |-> IF err THEN "false" ELSE "true", closed |-> err]

\* the hook starts: negotiateIMAPTLS writes the banner and blocks in ReadLine
IMAPGreet ==
    /\ hook = "imap" /\ hookPc = "start"
    /\ connOut' = Append(connOut, ImapBanner)
    /\ connLog' = Emit(connLog, <<ImapBanner>>)
    /\ hookPc' = "readCmd"
    /\ UNCHANGED <<hook, serverName, connIn, connClosed, hookRet, clientName>>
    /\ UNCHANGED <<cfgVars, connVars, acmeVars, sniffVars, fileVars>>

\* negotiateIMAPTLS's ReadLine returns; the hook returns true when
\* negotiateIMAPTLS returned nil and otherwise closes the connection and
\* returns false.
IMAPCommand ==
    /\ hook = "imap" /\ hookPc = "readCmd"
    /\ \E readErr \in BOOLEAN :
       \E l \in IF readErr THEN {""} ELSE ClientLines :
         LET r    == negotiateIMAPTLS(readErr, l)
             log1 == Append(connLog, IF readErr THEN <<"err", "">> ELSE <<"in", l>>)
         IN  /\ connIn' = IF readErr THEN connIn ELSE Append(connIn, l)
             /\ connOut' = connOut \o r.out
             /\ connLog' = Emit(log1, r.out)
             /\ connClosed' = negotiateIMAPStartTLS(r.err).closed
             /\ hookRet' = negotiateIMAPStartTLS(r.err).ret
    /\ hookPc' = "done"
    /\ UNCHANGED <<hook, serverName, clientName>>
    /\ UNCHANGED <<cfgVars, connVars, acmeVars, sniffVars, fileVars>>

----------------------------------------------------------------------------
(* Routes of one listener: sni.go *)

\* the bound on the number of route registrations of a run
MaxRoutes == 2

Nil == "nil"

Targets == {"A", "B"}

Hostnames ==
    { "", "a.test", "b.test", "c.test", "foo.acme.invalid", "acme.invalid" }

\* A Matcher is the set of hostnames it returns true for.
equals(want) == {h \in Hostnames : h = want}

Matchers == { Hostnames }

\* SNITargetFunc callbacks a caller may register, and what each returns
SNITargetFuncs == {"toA", "bOnly"}

CallSNITargetFunc(fn, sniName) ==
    CASE fn = "toA"   -> [t |-> "A", ok |-> TRUE]
      [] fn = "bOnly" -> IF sniName = "b.test"
                         THEN [t |-> "B", ok |-> TRUE]
                         ELSE [t |-> Nil, ok |-> FALSE]

\* DynamicTarget resolvers a caller may register (Nil: no resolver), and what
\* each returns: a target for every hostname, as pretendMatcher does; an
\* error next to a target; or neither a target nor an error
DynamicTargets == {Nil, "lookupA", "lookupErr", "lookupDecline"}

CallDynamicTarget(fn, hostname) ==
    CASE fn = "lookupA"       -> [target |-> "A", err |-> FALSE]
      [] fn = "lookupErr"     -> [target |-> "B", err |-> TRUE]
      [] fn = "lookupDecline" -> [target |-> Nil, err |-> FALSE]

\* the three rule types
sniMatch(matcher, target, targetFunc) ==
    [kind |-> "sniMatch", matcher |-> matcher, target |-> target,
     targetFunc |-> targetFunc, dynMatcher |-> Nil]

dynamicSNIMatch(dynMatcher) ==
    [kind |-> "dynamicSNIMatch", matcher |-> {}, target |-> Nil,
     targetFunc |-> Nil, dynMatcher |-> dynMatcher]

acmeMatch ==
    [kind |-> "acmeMatch", matcher |-> {}, target |-> Nil,
     targetFunc |-> Nil, dynMatcher |-> Nil]

\* the config of a listener no route was added to
configFor ==
    [routes |-> <<>>, acmeTargets |-> <<>>, stopACME |-> FALSE,
     negotiateFunc |-> [hook |-> "none", serverName |-> ""]]

\* p.addRouteWithId: the rule goes to the end of the listener's rule list
addRouteWithId(c, r, routeId) ==
    [c EXCEPT !.routes = Append(@, [id |-> routeId, rule |-> r])]

\* p.addRoute: addRouteWithId with a new id
addRoute(c, r, routeId) == addRouteWithId(c, r, routeId)

\* AddSNIMatchRoute that puts the new rule in front of the listener's rules
AddSNIMatchRoute_front(c, routeId, matcher, dest) ==
    LET c1 == IF ~c.stopACME
              THEN LET c0 == IF Len(c.acmeTargets) = 0
                             THEN addRouteWithId(c, acmeMatch, routeId)
                             ELSE c
                   IN  [c0 EXCEPT !.acmeTargets = Append(@, dest)]
              ELSE c
    IN  [c1 EXCEPT !.routes =
            <<[id |-> routeId, rule |-> sniMatch(matcher, dest, Nil)]>> \o @]

AddSNIMatchRoute(c, routeId, matcher, dest) ==
    LET c1 == IF ~c.stopACME
              THEN LET c0 == IF Len(c.acmeTargets) = 0
                             THEN addRouteWithId(c, acmeMatch, routeId)
                             ELSE c
                   IN  [c0 EXCEPT !.acmeTargets = Append(@, dest)]
              ELSE c
    IN  addRouteWithId(c1, sniMatch(matcher, dest, Nil), routeId)

AddSNIRoute(c, routeId, sni, dest) ==
    AddSNIMatchRoute(c, routeId, equals(sni), dest)

\* AddSNIDynamicRoute that puts an ACME rule before its route
AddSNIDynamicRoute_acme(c, routeId, targetLookup) ==
    addRoute(addRouteWithId(c, acmeMatch, routeId),
             dynamicSNIMatch(targetLookup), routeId)

AddSNIDynamicRoute(c, routeId, targetLookup) ==
    addRoute(c, dynamicSNIMatch(targetLookup), routeId)

AddSNIDynamicSMTPRoute(c, routeId, name, targetLookup) ==
    addRoute([c EXCEPT !.negotiateFunc = [hook |-> "smtp", serverName |-> name]],
             dynamicSNIMatch(targetLookup), routeId)

AddSNIRouteFunc(c, routeId, fn) ==
    addRoute(c, sniMatch({}, Nil, fn), routeId)

\* AddStopACMESearch that also empties the ACME-eligible set
AddStopACMESearch_clear(c) ==
    [c EXCEPT !.stopACME = TRUE, !.acmeTargets = <<>>]

AddStopACMESearch(c) == [c EXCEPT !.stopACME = TRUE]

\* the bound on the number of ACME targets of the listener
MaxAcmeTargets == 2

\* The setup phase: one call of a registration method per step, the id
\* being the next value of uuid.New().
CallAddSNIRoute ==
    /\ phase = "setup"
    /\ nextId < MaxRoutes
    /\ cfg.stopACME \/ Len(cfg.acmeTargets) < MaxAcmeTargets
    /\ \E sni \in {"a.test", "b.test"}, dest \in Targets :
          cfg' = AddSNIRoute(cfg, nextId, sni, dest)
    /\ nextId' = nextId + 1
    /\ UNCHANGED <<hookVars, connVars, acmeVars, sniffVars, fileVars>>

CallAddSNIMatchRoute ==
    /\ phase = "setup"
    /\ nextId < MaxRoutes
    /\ cfg.stopACME \/ Len(cfg.acmeTargets) < MaxAcmeTargets
    /\ \E matcher \in Matchers, dest \in Targets :
          cfg' = AddSNIMatchRoute(cfg, nextId, matcher, dest)
    /\ nextId' = nextId + 1
    /\ UNCHANGED <<hookVars, connVars, acmeVars, sniffVars, fileVars>>

CallAddSNIDynamicRoute ==
    /\ phase = "setup"
    /\ nextId < MaxRoutes
    /\ \E targetLookup \in DynamicTargets :
          cfg' = AddSNIDynamicRoute(cfg, nextId, targetLookup)
    /\ nextId' = nextId + 1
    /\ UNCHANGED <<hookVars, connVars, acmeVars, sniffVars, fileVars>>

CallAddSNIDynamicSMTPRoute ==
    /\ phase = "setup"
    /\ nextId < MaxRoutes
    /\ \E name \in {"mx"}, targetLookup \in {"lookupA"} :
          cfg' = AddSNIDynamicSMTPRoute(cfg, nextId, name, targetLookup)
    /\ nextId' = nextId + 1
    /\ UNCHANGED <<hookVars, connVars, acmeVars, sniffVars, fileVars>>

CallAddSNIRouteFunc ==
    /\ phase = "setup"
    /\ nextId < MaxRoutes
    /\ \E fn \in SNITargetFuncs : cfg' = AddSNIRouteFunc(cfg, nextId, fn)
    /\ nextId' = nextId + 1
    /\ UNCHANGED <<hookVars, connVars, acmeVars, sniffVars, fileVars>>

CallAddStopACMESearch ==
    /\ phase = "setup"
    /\ ~cfg.stopACME
    /\ cfg' = AddStopACMESearch(cfg)
    /\ UNCHANGED <<nextId, hookVars, connVars, acmeVars, sniffVars, fileVars>>

----------------------------------------------------------------------------
(* Matching one connection: sni.go *)

\* what ReadClientHelloInfo can find in a connection's buffered bytes: an
\* error, or a ClientHello with a ServerName (empty when it carries none)
Readers ==
    {[err |-> TRUE, ServerName |-> ""]}
      \cup {[err |-> FALSE, ServerName |-> h] : h \in Hostnames}

clientHelloServerName(b) == IF b.err THEN "" ELSE b.ServerName

\* dynamicSNIMatch.match that does not look at the resolver's error
dynamicSNIMatch_match_noErr(m, b) ==
    LET sni == clientHelloServerName(b) IN
    IF m.dynMatcher = Nil THEN Nil
    ELSE CallDynamicTarget(m.dynMatcher, sni).target

\* dynamicSNIMatch.match: the target, Nil for no match
dynamicSNIMatch_match(m, b) ==
    LET sni == clientHelloServerName(b) IN
    IF m.dynMatcher = Nil THEN Nil
    ELSE IF CallDynamicTarget(m.dynMatcher, sni).err THEN Nil
    ELSE CallDynamicTarget(m.dynMatcher, sni).target

\* sniMatch.match that returns its target without asking the matcher
sniMatch_match_always(m, b) ==
    LET sni == clientHelloServerName(b) IN
    IF sni = "" THEN Nil
    ELSE IF m.targetFunc # Nil
    THEN IF CallSNITargetFunc(m.targetFunc, sni).ok
         THEN CallSNITargetFunc(m.targetFunc, sni).t
         ELSE Nil
    ELSE m.target

\* sniMatch.match: the target, Nil for no match
sniMatch_match(m, b) ==
    LET sni == clientHelloServerName(b) IN
    IF sni = "" THEN Nil
    ELSE IF m.targetFunc # Nil
    THEN IF CallSNITargetFunc(m.targetFunc, sni).ok
         THEN CallSNITargetFunc(m.targetFunc, sni).t
         ELSE Nil
    ELSE IF sni \in m.matcher THEN m.target
    ELSE Nil

\* the suffix test without the leading dot
acmeSuffix_noDot(sni) == HasSuffix(sni, "acme.invalid")

\* acmeMatch.match goes on to race the backends for this hostname
acmeSuffix(sni) == HasSuffix(sni, ".acme.invalid")

\* what a backend can do with the handshake of an attempt: present a first
\* certificate valid for the hostname, fail the handshake, present no
\* certificate, present a certificate for another name, or never answer
Behaviours == {"valid", "hserr", "nocert", "badcert", "hang"}

\* tryACME without the VerifyHostname of the first certificate
tryACME_noVerify(dest, b) ==
    IF b = "hserr" THEN Nil
    ELSE IF b = "nocert" THEN Nil
    ELSE dest

\* tryACME's ret for a backend that answers the handshake
tryACME(dest, b) ==
    IF b = "hserr" THEN Nil
    ELSE IF b = "nocert" THEN Nil
    ELSE IF b = "badcert" THEN Nil
    ELSE dest

\* ctx.Deadline() in tryACME: acmeMatch.match makes ctx with
\* context.WithCancel(context.Background()), a context without a deadline
ctxDeadline == [ok |-> FALSE]

\* a channel with room for one result
chanCap_one(c) == 1

\* the number of results the channel of acmeMatch.match holds without a
\* sender blocking
chanCap(c) == Len(c.acmeTargets)

\* serveConn's loop after route.match returned target for the rule at
\* ruleIdx: a non-nil target takes the connection, otherwise the next rule
\* is tried.
LoopStep(target) ==
    /\ evaluated' = Append(evaluated, [idx |-> ruleIdx, target |-> target])
    /\ IF target # Nil
       THEN /\ chosen' = target
            /\ phase' = "routed"
            /\ ruleIdx' = ruleIdx
       ELSE /\ chosen' = chosen
            /\ phase' = phase
            /\ ruleIdx' = ruleIdx + 1
    /\ UNCHANGED br

\* a connection is accepted: setup is over
Accept ==
    /\ phase = "setup"
    /\ phase' = "serving"
    /\ br' \in Readers
    /\ UNCHANGED <<ruleIdx, evaluated, chosen, hookVars, cfgVars, acmeVars,
                   sniffVars, fileVars>>

\* the loop calls match of a rule that answers at once: a sniMatch, a
\* dynamicSNIMatch, or the acmeMatch for a hostname without the suffix
ServeRule ==
    /\ phase = "serving" /\ acmePc # "racing"
    /\ ruleIdx <= Len(cfg.routes)
    /\ LET m == cfg.routes[ruleIdx].rule IN
         CASE m.kind = "sniMatch" -> LoopStep(sniMatch_match(m, br))
           [] m.kind = "dynamicSNIMatch" ->
                LoopStep(dynamicSNIMatch_match(m, br))
           [] m.kind = "acmeMatch" ->
                /\ ~acmeSuffix(clientHelloServerName(br))
                /\ LoopStep(Nil)
    /\ UNCHANGED <<hookVars, cfgVars, acmeVars, sniffVars, fileVars>>

\* no rule is left: the connection is closed unrouted
ServeNoMatch ==
    /\ phase = "serving" /\ acmePc # "racing"
    /\ ruleIdx > Len(cfg.routes)
    /\ phase' = "closed"
    /\ UNCHANGED <<br, ruleIdx, evaluated, chosen, hookVars, cfgVars, acmeVars,
                   sniffVars, fileVars>>

\* acmeMatch.match for a hostname with the suffix: the channel is made and
\* one tryACME goroutine is started per ACME target; with no target match
\* returns nil at once.
AcmeStart ==
    /\ phase = "serving" /\ acmePc = "idle"
    /\ ruleIdx <= Len(cfg.routes)
    /\ cfg.routes[ruleIdx].rule.kind = "acmeMatch"
    /\ acmeSuffix(clientHelloServerName(br))
    /\ LET n == Len(cfg.acmeTargets) IN
         /\ behav' \in [1..n -> Behaviours]
         /\ attPc' = [i \in 1..n |-> "running"]
         /\ pipeOpen' = [i \in 1..n |-> TRUE]
         /\ pipeDeadline' = [i \in 1..n |-> ctxDeadline.ok]
         /\ ch' = <<>>
         /\ nrecv' = 0
         /\ IF n = 0
            THEN acmePc' = "returned" /\ LoopStep(Nil)
            ELSE acmePc' = "racing"
                   /\ UNCHANGED <<br, ruleIdx, evaluated, chosen, phase>>
    /\ UNCHANGED <<acmeRet, hookVars, cfgVars, sniffVars, fileVars>>

\* the handshake of attempt i returns, because the backend answered or
\* because the deadline of the pipe end expired (a handshake error): the
\* deferred calls of tryACME run last in first out, conn.Close() and then
\* the send of ret, which needs room in the channel; it does so whether or
\* not match is still receiving
TryACME(i) ==
    /\ i \in 1..Len(attPc)
    /\ attPc[i] = "running"
    /\ behav[i] # "hang" \/ pipeDeadline[i]
    /\ Len(ch) < chanCap(cfg)
    /\ pipeOpen' = [pipeOpen EXCEPT ![i] = FALSE]
    /\ ch' = Append(ch, tryACME(cfg.acmeTargets[i],
                                IF behav[i] = "hang" THEN "hserr"
                                ELSE behav[i]))
    /\ attPc' = [attPc EXCEPT ![i] = "done"]
    /\ UNCHANGED <<acmePc, behav, pipeDeadline, nrecv, acmeRet, hookVars,
                   cfgVars, connVars, sniffVars, fileVars>>

\* match receives one result: a non-nil target is returned at once, and nil
\* is returned after as many results as there are ACME targets
AcmeRecv ==
    /\ acmePc = "racing"
    /\ Len(ch) > 0
    /\ ch' = Tail(ch)
    /\ nrecv' = nrecv + 1
    /\ acmeRet' = Head(ch)
    /\ IF Head(ch) # Nil
       THEN acmePc' = "returned" /\ LoopStep(Head(ch))
       ELSE IF nrecv + 1 = Len(cfg.acmeTargets)
       THEN acmePc' = "returned" /\ LoopStep(Nil)
       ELSE acmePc' = acmePc
              /\ UNCHANGED <<br, ruleIdx, evaluated, chosen, phase>>
    /\ UNCHANGED <<behav, attPc, pipeOpen, pipeDeadline, hookVars, cfgVars,
                   sniffVars, fileVars>>

----------------------------------------------------------------------------
(* Sniffing the bytes of one connection: sni.go *)

\* the bound on the number of bytes a connection delivers
MaxStreamLen == 6

\* the bound on the number of sniffing calls on one connection
MaxSniffs == 2

recordHeaderLen == 5

recordTypeHandshake == 22

\* the byte values of a stream: the handshake record type and two others
Bytes == {0, 1, recordTypeHandshake}

Streams == UNION {[1..n -> Bytes] : n \in 0..MaxStreamLen}

Min(a, b) == IF a < b THEN a ELSE b

\* A peeker is [data, pos]: the bytes of the connection and how many of
\* them were consumed.

\* br.Peek that consumes the bytes it returns, as br.Read does
Peek_consume(r, n) ==
    LET avail == Len(r.data) - r.pos
        k     == Min(n, avail)
    IN  [r     |-> [r EXCEPT !.pos = @ + k],
         bytes |-> SubSeq(r.data, r.pos + 1, r.pos + k),
         err   |-> avail < n]

\* br.Peek(n): the next n bytes without advancing the reader, or the bytes
\* there are and an error when the connection ends before n bytes
Peek(r, n) ==
    LET avail == Len(r.data) - r.pos
        k     == Min(n, avail)
    IN  [r     |-> r,
         bytes |-> SubSeq(r.data, r.pos + 1, r.pos + k),
         err   |-> avail < n]

\* tls.Server(sniSniffConn{...}).Handshake() over the bytes of one record:
\* the ServerName of the ClientHello that GetConfigForClient is called
\* with, "" when the record holds no ClientHello (helloInfo stays the empty
\* ClientHelloInfo) or the ClientHello names no server.  The payloads that
\* stand for a ClientHello with a server name are fixed here.
Handshake(helloBytes) ==
    LET payload == SubSeq(helloBytes, recordHeaderLen + 1, Len(helloBytes)) IN
    CASE payload = <<1>>                   -> "a.test"
      [] payload = <<recordTypeHandshake>> -> "foo.acme.invalid"
      [] OTHER                             -> ""

\* ReadClientHelloInfo without the test of the record type
ReadClientHelloInfo_anyType(r) ==
    LET p1 == Peek(r, recordHeaderLen) IN
    IF p1.err
    THEN [err |-> TRUE, ServerName |-> "", r |-> p1.r, seen |-> Len(p1.bytes)]
    ELSE LET hdr    == p1.bytes
             recLen == hdr[4] * 256 + hdr[5]
             p2     == Peek(p1.r, recordHeaderLen + recLen)
         IN  IF p2.err
             THEN [err |-> TRUE, ServerName |-> "", r |-> p2.r,
                   seen |-> Len(p2.bytes)]
             ELSE [err |-> FALSE, ServerName |-> Handshake(p2.bytes),
                   r |-> p2.r, seen |-> Len(p2.bytes)]

\* ReadClientHelloInfo(br): err and the ServerName of the hello, with the
\* reader as the call leaves it and the number of bytes the last Peek
\* returned.  hdr[i] of the code is hdr[i + 1] here.
ReadClientHelloInfo(r) ==
    LET p1 == Peek(r, recordHeaderLen) IN
    IF p1.err
    THEN [err |-> TRUE, ServerName |-> "", r |-> p1.r, seen |-> Len(p1.bytes)]
    ELSE LET hdr == p1.bytes IN
         IF hdr[1] # recordTypeHandshake
         THEN [err |-> TRUE, ServerName |-> "", r |-> p1.r,
               seen |-> Len(p1.bytes)]
         ELSE LET recLen == hdr[4] * 256 + hdr[5]
                  p2     == Peek(p1.r, recordHeaderLen + recLen)
              IN  IF p2.err
                  THEN [err |-> TRUE, ServerName |-> "", r |-> p2.r,
                        seen |-> Len(p2.bytes)]
                  ELSE [err |-> FALSE, ServerName |-> Handshake(p2.bytes),
                        r |-> p2.r, seen |-> Len(p2.bytes)]

\* a rule, or any caller, calls clientHelloServerName(br)
SniffServerName ==
    /\ Len(sniffs) < MaxSniffs
    /\ LET res == ReadClientHelloInfo([data |-> stream, pos |-> rpos]) IN
         /\ rpos' = res.r.pos
         /\ sniffs' = Append(sniffs, [fn   |-> "clientHelloServerName",
                                      sni  |-> clientHelloServerName(res),
                                      err  |-> FALSE,
                                      seen |-> res.seen])
    /\ UNCHANGED <<stream, hookVars, cfgVars, connVars, acmeVars, fileVars>>

\* a caller calls the exported ReadClientHelloInfo(br)
SniffHelloInfo ==
    /\ Len(sniffs) < MaxSniffs
    /\ LET res == ReadClientHelloInfo([data |-> stream, pos |-> rpos]) IN
         /\ rpos' = res.r.pos
         /\ sniffs' = Append(sniffs, [fn   |-> "ReadClientHelloInfo",
                                      sni  |-> res.ServerName,
                                      err  |-> res.err,
                                      seen |-> res.seen])
    /\ UNCHANGED <<stream, hookVars, cfgVars, connVars, acmeVars, fileVars>>

----------------------------------------------------------------------------
(* The static routing file: Config.Read and Config.Match *)

\* the bound on the number of lines of a routing file
MaxLines == 2

\* strings.Fields(s): the runs of non-space characters of s, in order
RECURSIVE Fields(_)
Fields(s) ==
    LET t == SkipSpace(s) IN
    IF t = "" THEN <<>>
    ELSE <<Token(t)>> \o Fields(SubSeq(t, Len(Token(t)) + 1, Len(t)))

\* the lines a routing file is made of: blank, two fields, two fields with
\* spaces around them, one field, three fields, and a pattern that does not
\* compile
ConfigLines == {"", "a.test A", " .*  B ", "a.test", "a.test A B", "( A"}

\* the readers handed to Read: the lines the scanner delivers, and whether
\* it ends with an error (s.Err()) after them
Inputs ==
    [lines : UNION {[1..n -> ConfigLines] : n \in 0..MaxLines},
     err   : BOOLEAN]

\* dnsRegex(s), regexp.Compile: of the patterns above only "(" does not
\* compile
dnsRegex(s) == [re |-> s, err |-> s = "("]

\* the hostnames Match is asked about
MatchHosts == {"a.test", "b.test"}

\* r.match.MatchString(hostname) for the patterns above and these hostnames
MatchString(re, h) ==
    CASE re = ".*"     -> TRUE
      [] re = "a.test" -> h = "a.test"
      [] OTHER         -> FALSE

\* the switch of Read that skips a line of one field
ReadLine_skipOne(routes, text) ==
    LET fs == Fields(text) IN
    CASE Len(fs) = 0 -> [err |-> FALSE, routes |-> routes]
      [] Len(fs) = 1 -> [err |-> FALSE, routes |-> routes]
      [] Len(fs) = 2 ->
           IF dnsRegex(fs[1]).err
           THEN [err |-> TRUE, routes |-> routes]
           ELSE [err |-> FALSE,
                 routes |-> Append(routes, [match   |-> dnsRegex(fs[1]).re,
                                            backend |-> fs[2]])]
      [] OTHER -> [err |-> TRUE, routes |-> routes]

\* the switch of Read on the fields of one line: whether Read returns an
\* error here, and the local routes after the line
ReadLine(routes, text) ==
    LET fs == Fields(text) IN
    CASE Len(fs) = 0 -> [err |-> FALSE, routes |-> routes]
      [] Len(fs) = 1 -> [err |-> TRUE, routes |-> routes]
      [] Len(fs) = 2 ->
           IF dnsRegex(fs[1]).err
           THEN [err |-> TRUE, routes |-> routes]
           ELSE [err |-> FALSE,
                 routes |-> Append(routes, [match   |-> dnsRegex(fs[1]).re,
                                            backend |-> fs[2]])]
      [] OTHER -> [err |-> TRUE, routes |-> routes]

\* Read as a whole on the lines of a reader that ends without an error
RECURSIVE ReadAll(_)
ReadAll(lines) ==
    IF lines = <<>> THEN [err |-> FALSE, routes |-> <<>>]
    ELSE LET first == ReadAll(SubSeq(lines, 1, Len(lines) - 1)) IN
         IF first.err THEN first
         ELSE ReadLine(first.routes, lines[Len(lines)])

\* the route lists a Config can hold: the empty list of a new Config, and
\* what an earlier Read that returned nil has put there
LoadedLists ==
    {ReadAll(x.lines).routes :
        x \in {y \in Inputs : ~y.err /\ ~ReadAll(y.lines).err}}

\* Read is called with a reader: var routes []Route
ReadStart ==
    /\ readPc = "idle"
    /\ readRet = "none"
    /\ input' \in Inputs
    /\ scanned' = 0
    /\ newRoutes' = <<>>
    /\ routesBefore' = conf.routes
    /\ readPc' = "scanning"
    /\ UNCHANGED <<conf, readRet, matchPc, matchHost, ranged, matchIdx, matchRet>>
    /\ UNCHANGED <<hookVars, cfgVars, connVars, acmeVars, sniffVars>>

\* s.Scan() delivers a line and the switch runs on it
ReadScan ==
    /\ readPc = "scanning"
    /\ scanned < Len(input.lines)
    /\ scanned' = scanned + 1
    /\ LET res == ReadLine(newRoutes, input.lines[scanned + 1]) IN
         /\ newRoutes' = res.routes
         /\ IF res.err
            THEN readPc' = "idle" /\ readRet' = "err"
            ELSE readPc' = readPc /\ readRet' = readRet
    /\ UNCHANGED <<conf, input, routesBefore, matchPc, matchHost,
                   ranged, matchIdx, matchRet>>
    /\ UNCHANGED <<hookVars, cfgVars, connVars, acmeVars, sniffVars>>

\* s.Scan() returns false: Read returns s.Err() when it is not nil, and
\* otherwise goes on to c.mu.Lock()
ReadScanEnd ==
    /\ readPc = "scanning"
    /\ scanned = Len(input.lines)
    /\ IF input.err
       THEN readPc' = "idle" /\ readRet' = "err"
       ELSE readPc' = "locking" /\ readRet' = readRet
    /\ UNCHANGED <<conf, input, scanned, newRoutes, routesBefore,
                   matchPc, matchHost, ranged, matchIdx, matchRet>>
    /\ UNCHANGED <<hookVars, cfgVars, connVars, acmeVars, sniffVars>>

\* c.mu.Lock() of Read returns
ReadLock ==
    /\ readPc = "locking"
    /\ conf.mu = "none"
    /\ conf' = [conf EXCEPT !.mu = "Read"]
    /\ readPc' = "assigning"
    /\ UNCHANGED <<input, scanned, newRoutes, readRet, routesBefore,
                   matchPc, matchHost, ranged, matchIdx, matchRet>>
    /\ UNCHANGED <<hookVars, cfgVars, connVars, acmeVars, sniffVars>>

\* c.routes = routes; return nil, and the deferred c.mu.Unlock()
ReadAssign ==
    /\ readPc = "assigning"
    /\ conf' = [mu |-> "none", routes |-> newRoutes]
    /\ readPc' = "idle"
    /\ readRet' = "nil"
    /\ UNCHANGED <<input, scanned, newRoutes, routesBefore, matchPc,
                   matchHost, ranged, matchIdx, matchRet>>
    /\ UNCHANGED <<hookVars, cfgVars, connVars, acmeVars, sniffVars>>

\* Match is called and its c.mu.Lock() returns; the range statement takes
\* c.routes
MatchLock ==
    /\ matchPc = "idle"
    /\ conf.mu = "none"
    /\ conf' = [conf EXCEPT !.mu = "Match"]
    /\ matchHost' \in MatchHosts
    /\ ranged' = conf.routes
    /\ matchIdx' = 1
    /\ matchRet' = "none"
    /\ matchPc' = "ranging"
    /\ UNCHANGED <<readPc, input, scanned, newRoutes, readRet,
                   routesBefore>>
    /\ UNCHANGED <<hookVars, cfgVars, connVars, acmeVars, sniffVars>>

\* one iteration of the loop of Match, or its end: the backend of the route
\* that matches or "" is returned, and the deferred c.mu.Unlock() runs
MatchStep ==
    /\ matchPc = "ranging"
    /\ IF matchIdx > Len(ranged)
       THEN /\ matchRet' = ""
            /\ matchPc' = "idle"
            /\ conf' = [conf EXCEPT !.mu = "none"]
            /\ matchIdx' = matchIdx
       ELSE IF MatchString(ranged[matchIdx].match, matchHost)
       THEN /\ matchRet' = ranged[matchIdx].backend
            /\ matchPc' = "idle"
            /\ conf' = [conf EXCEPT !.mu = "none"]
            /\ matchIdx' = matchIdx
       ELSE /\ matchIdx' = matchIdx + 1
            /\ UNCHANGED <<matchRet, matchPc, conf>>
    /\ UNCHANGED <<readPc, input, scanned, newRoutes, readRet,
                   routesBefore, matchHost, ranged>>
    /\ UNCHANGED <<hookVars, cfgVars, connVars, acmeVars, sniffVars>>

----------------------------------------------------------------------------
(* The negotiation hooks on one accepted connection *)

InitHook ==
    /\ hook \in {"smtp", "imap"}
    /\ serverName \in IF hook = "smtp" THEN ServerNames ELSE {""}
    /\ hookPc = "start"
    /\ connIn = <<>>
    /\ connOut = <<>>
    /\ connLog = <<>>
    /\ connClosed = FALSE
    /\ hookRet = "pending"
    /\ clientName = ""

\* no hook runs
IdleHook ==
    /\ hook = "none"
    /\ serverName = ""
    /\ hookPc = "done"
    /\ connIn = <<>>
    /\ connOut = <<>>
    /\ connLog = <<>>
    /\ connClosed = FALSE
    /\ hookRet = "pending"
    /\ clientName = ""

\* a Proxy no route was added to, and no connection
InitProxy ==
    /\ cfg = configFor
    /\ nextId = 0
    /\ phase = "setup"
    /\ br = [err |-> TRUE, ServerName |-> ""]
    /\ ruleIdx = 1
    /\ evaluated = <<>>
    /\ chosen = Nil
    /\ acmePc = "idle"
    /\ behav = <<>>
    /\ attPc = <<>>
    /\ pipeOpen = <<>>
    /\ pipeDeadline = <<>>
    /\ ch = <<>>
    /\ nrecv = 0
    /\ acmeRet = Nil

\* no connection is being sniffed byte by byte
IdleSniff ==
    /\ stream = <<>>
    /\ rpos = 0
    /\ sniffs = <<>>

\* a Config nothing was read into, and no call in progress
InitFile ==
    /\ conf = [mu |-> "none", routes |-> <<>>]
    /\ readPc = "idle"
    /\ input = [lines |-> <<>>, err |-> FALSE]
    /\ scanned = 0
    /\ newRoutes = <<>>
    /\ readRet = "none"
    /\ routesBefore = <<>>
    /\ matchPc = "idle"
    /\ matchHost = ""
    /\ ranged = <<>>
    /\ matchIdx = 1
    /\ matchRet = "none"

InitStartTLS == InitHook /\ InitProxy /\ IdleSniff /\ InitFile

NextStartTLS ==
    \/ SMTPGreet
    \/ SMTPEhlo
    \/ SMTPCommand
    \/ IMAPGreet
    \/ IMAPCommand

\* the negotiation hooks on one connection
SpecStartTLS == InitStartTLS /\ [][NextStartTLS]_vars

Init == IdleHook /\ InitProxy /\ IdleSniff /\ InitFile

Next ==
    \/ CallAddSNIRoute
    \/ CallAddSNIMatchRoute
    \/ CallAddSNIDynamicRoute
    \/ CallAddSNIDynamicSMTPRoute
    \/ CallAddSNIRouteFunc
    \/ CallAddStopACMESearch
    \/ Accept
    \/ ServeRule
    \/ ServeNoMatch
    \/ AcmeStart
    \/ \E i \in 1..MaxAcmeTargets : TryACME(i)
    \/ AcmeRecv

\* route registration, then the routing of one connection
Spec == Init /\ [][Next]_vars

\* the listener after AddSNIRoute was called once per element of dests
RECURSIVE Registered(_)
Registered(dests) ==
    IF dests = <<>> THEN configFor
    ELSE AddSNIRoute(Registered(SubSeq(dests, 1, Len(dests) - 1)),
                     Len(dests) - 1, "a.test", dests[Len(dests)])

\* setup is over: between one and MaxAcmeTargets SNI routes were added
InitRace ==
    /\ IdleHook
    /\ IdleSniff
    /\ InitFile
    /\ \E n \in 1..MaxAcmeTargets : \E dests \in [1..n -> Targets] :
          /\ cfg = Registered(dests)
          /\ nextId = n
    /\ phase = "setup"
    /\ br = [err |-> TRUE, ServerName |-> ""]
    /\ ruleIdx = 1
    /\ evaluated = <<>>
    /\ chosen = Nil
    /\ acmePc = "idle"
    /\ behav = <<>>
    /\ attPc = <<>>
    /\ pipeOpen = <<>>
    /\ pipeDeadline = <<>>
    /\ ch = <<>>
    /\ nrecv = 0
    /\ acmeRet = Nil

NextRace ==
    \/ Accept
    \/ ServeRule
    \/ ServeNoMatch
    \/ AcmeStart
    \/ \E i \in 1..MaxAcmeTargets : TryACME(i)
    \/ AcmeRecv

\* The routing of one connection on a listener of SNI routes.  The Go
\* scheduler runs every runnable goroutine: an attempt whose handshake
\* returned, and match when a result is in the channel.
FairRace ==
    /\ InitRace
    /\ [][NextRace]_vars
    /\ \A i \in 1..MaxAcmeTargets : WF_vars(TryACME(i))
    /\ WF_vars(AcmeRecv)

\* one connection delivering any stream of at most MaxStreamLen bytes
InitSniff ==
    /\ IdleHook
    /\ InitProxy
    /\ InitFile
    /\ stream \in Streams
    /\ rpos = 0
    /\ sniffs = <<>>

NextSniff ==
    \/ SniffServerName
    \/ SniffHelloInfo

\* the sniffing functions called again and again on one connection
SpecSniff == InitSniff /\ [][NextSniff]_vars

\* a Config that holds a loaded route list, and no call in progress; no
\* connection and no listener
InitConfig ==
    /\ IdleHook
    /\ InitProxy
    /\ IdleSniff
    /\ conf \in [mu : {"none"}, routes : LoadedLists]
    /\ readPc = "idle"
    /\ input = [lines |-> <<>>, err |-> FALSE]
    /\ scanned = 0
    /\ newRoutes = <<>>
    /\ readRet = "none"
    /\ routesBefore = conf.routes
    /\ matchPc = "idle"
    /\ matchHost = ""
    /\ ranged = <<>>
    /\ matchIdx = 1
    /\ matchRet = "none"

NextFile ==
    \/ ReadStart
    \/ ReadScan
    \/ ReadScanEnd
    \/ ReadLock
    \/ ReadAssign
    \/ MatchLock
    \/ MatchStep

\* one call of Read on a Config, with calls of Match running beside it
SpecFile == InitConfig /\ [][NextFile]_vars

----------------------------------------------------------------------------
(* Properties of the negotiation hooks, checked under SpecStartTLS *)

\* the lines of a sequence of lines
Range(f) == {f[i] : i \in 1..Len(f)}

\* the number of ReadLine calls that have returned
ReadCount == Cardinality({i \in 1..Len(connLog) : connLog[i][1] # "out"})

\* l is EHLO, one space, and one token
EhloToken(l) ==
    /\ HasPrefix(l, "EHLO ")
    /\ Len(l) > 5
    /\ IndexSpace(SubSeq(l, 6, Len(l))) = 0

\* l starts with the verb EHLO and a space, and a token follows
EhloLine(l) ==
    /\ HasPrefix(l, "EHLO ")
    /\ SkipSpace(SubSeq(l, 6, Len(l))) # ""

\* the number of space-separated tokens of s
RECURSIVE CountTokens(_)
CountTokens(s) ==
    IF SkipSpace(s) = "" THEN 0
    ELSE LET t == SkipSpace(s) IN
         1 + CountTokens(SubSeq(t, Len(Token(t)) + 1, Len(t)))

\* l is the verb EHLO followed by exactly one token
EhloExactlyOneToken(l) ==
    /\ HasPrefix(l, "EHLO ")
    /\ CountTokens(SubSeq(l, 6, Len(l))) = 1

SmtpGreeting == <<"out", "220 " \o serverName \o " Service ready">>
SmtpHello    == <<"out", "250-" \o serverName \o " G'day!">>
SmtpStartTLS == <<"out", "250 STARTTLS">>
SmtpGoAhead  == <<"out", "220 Go ahead">>

\* C3: an SMTP hook configured with server name S that reads `EHLO <token>`
\* and then `STARTTLS` has written exactly `220 S Service ready`,
\* `250-S G'day!`, `250 STARTTLS`, `220 Go ahead`, in that order, the greeting
\* before any read, the two 250 lines after the EHLO line was read and before
\* the next read, and `220 Go ahead` after STARTTLS was read; and it returns
\* true.
C3_SMTPSuccessPath ==
    hook = "smtp" =>
      /\ Len(connLog) >= 1 => connLog[1] = SmtpGreeting
      /\ (Len(connLog) >= 2 /\ connLog[2][1] = "in" /\ EhloToken(connLog[2][2]))
           => /\ Len(connLog) >= 4
              /\ connLog[3] = SmtpHello
              /\ connLog[4] = SmtpStartTLS
      /\ ( /\ Len(connLog) >= 5
           /\ EhloToken(connLog[2][2])
           /\ connLog[5] = <<"in", "STARTTLS">> )
           => /\ connLog = << SmtpGreeting, connLog[2], SmtpHello,
                              SmtpStartTLS, connLog[5], SmtpGoAhead >>
              /\ connOut = << SmtpGreeting[2], SmtpHello[2],
                              SmtpStartTLS[2], SmtpGoAhead[2] >>
              /\ hookRet = "true"

C3_Witness ==
    /\ hook = "smtp" /\ serverName = "mail.example"
    /\ connIn = <<"EHLO client1", "STARTTLS">>
    /\ hookRet = "true"
    /\ Len(connOut) = 4

\* C4: the SMTP hook writes `220 Go ahead`, and returns true, only if it read
\* two lines, the first an EHLO line with a client name and the second
\* exactly `STARTTLS`; after any other second line or a read error it
\* returns false without `220 Go ahead`, and it never reads a third line.
C4_SMTPOnlyStartTLS ==
    hook = "smtp" =>
      /\ ("220 Go ahead" \in Range(connOut) \/ hookRet = "true")
           => /\ Len(connIn) = 2
              /\ EhloLine(connIn[1])
              /\ connIn[2] = "STARTTLS"
              /\ hookRet = "true"
      /\ (Len(connLog) >= 5 /\ connLog[5] # <<"in", "STARTTLS">>)
           => /\ hookRet = "false"
              /\ "220 Go ahead" \notin Range(connOut)
              /\ Len(connLog) = 5
      /\ ReadCount <= 2

C4_Witness ==
    /\ hook = "smtp"
    /\ connIn = <<"EHLO client1", "NOOP">>
    /\ hookRet = "false"
    /\ connOut = << "220 " \o serverName \o " Service ready",
                    "250-" \o serverName \o " G'day!", "250 STARTTLS" >>

\* C5: the SMTP hook accepts its first line (goes on to write the 250 lines)
\* only if the line is EHLO followed by exactly one token; after any other
\* first line it returns false having written the greeting only.
C5_SMTPEhloExactlyOneToken ==
    (hook = "smtp" /\ Len(connLog) >= 2 /\ connLog[2][1] = "in") =>
      IF EhloExactlyOneToken(connLog[2][2])
      THEN Len(connOut) >= 3
      ELSE /\ hookRet = "false"
           /\ connOut = << "220 " \o serverName \o " Service ready" >>

\* C6: the IMAP hook, having written the capability banner and read one
\* line, returns true if and only if the line is `<tag> STARTTLS` where the
\* space before STARTTLS is the first space of the line; it has then written
\* `<tag> OK Begin TLS negotiation now` after the banner.  After a line
\* without a space, or a read error, it returns false and has written the
\* banner only.
C6_IMAPStartTLS ==
    hook = "imap" =>
      /\ Len(connOut) >= 1 => connOut[1] = ImapBanner
      /\ hookPc = "done" =>
           /\ ReadCount = 1
           /\ hookRet = "true" <=>
                /\ connLog[2][1] = "in"
                /\ HasSuffix(connLog[2][2], " STARTTLS")
                /\ IndexSpace(connLog[2][2]) = Len(connLog[2][2]) - 8
           /\ hookRet = "true" =>
                connOut = << ImapBanner,
                             SubSeq(connIn[1], 1, Len(connIn[1]) - 9)
                               \o " OK Begin TLS negotiation now" >>
           /\ (connLog[2][1] = "err" \/ SpacePositions(connLog[2][2]) = {})
                => hookRet = "false" /\ connOut = <<ImapBanner>>

C6_Witness ==
    /\ hook = "imap"
    /\ connIn = <<"a1 STARTTLS">>
    /\ connOut = <<ImapBanner, "a1 OK Begin TLS negotiation now">>
    /\ hookRet = "true"

\* C7: the IMAP hook, having read a line `<tag> <command> ...` whose command
\* word is not STARTTLS, has written `<tag> <command> Unsupported command`
\* with the command word only, and returns false; for `a1 LOGIN user pass`
\* the line is `a1 LOGIN Unsupported command`.
C7_IMAPUnsupportedCommand ==
    ( /\ hook = "imap" /\ hookPc = "done" /\ Len(connIn) = 1
      /\ SpacePositions(connIn[1]) # {}
      /\ Token(Cut(connIn[1]).after) # "STARTTLS" )
      => /\ hookRet = "false"
         /\ connOut = << ImapBanner,
                         Cut(connIn[1]).before \o " "
                           \o Token(Cut(connIn[1]).after)
                           \o " Unsupported command" >>

\* C8: when either hook has returned false the connection is closed, and
\* when it has returned true, or has not returned yet, the connection is
\* open; a hook that is done has returned.
C8_FailureClosesConn ==
    /\ hookRet = "false" => connClosed
    /\ hookRet = "true" => ~connClosed
    /\ hookRet = "pending" => ~connClosed
    /\ hookPc = "done" <=> hookRet # "pending"

C8_Witness ==
    /\ hook = "imap"
    /\ connIn = <<"a1 NOOP">>
    /\ hookRet = "false"
    /\ connClosed

----------------------------------------------------------------------------
(* Properties of route evaluation and of the ACME race, checked under Spec *)

\* the hostname every rule sniffs from the connection
Sniffed == IF br.err THEN "" ELSE br.ServerName

\* rule r is an equality or predicate rule whose matcher accepts host
Accepts(r, host) ==
    /\ r.kind = "sniMatch"
    /\ r.targetFunc = Nil
    /\ host # ""
    /\ host \in r.matcher

\* the ACME rule is at position i of the rule list
IsAcme(i) == cfg.routes[i].rule.kind = "acmeMatch"

\* C1: the rule list of the listener is in registration order (ids are
\* handed out in the order of the registration calls), the rules of a
\* connection are evaluated in the order of the list, each once, and
\* evaluation stops at the first rule that yields a target: every
\* rule evaluated before the last one yielded none, the connection goes to
\* the target the last evaluated rule yielded, no equality or predicate rule
\* registered before it accepts the hostname, and when that rule is an
\* equality or predicate rule it accepts the hostname and the target is its
\* own.  A connection closed unrouted had every rule evaluated without a
\* target, and no equality or predicate rule accepts its hostname.
C1_RegistrationOrder ==
    /\ \A i, j \in 1..Len(cfg.routes) :
         i < j => cfg.routes[i].id <= cfg.routes[j].id
    /\ \A i \in 1..Len(evaluated) : evaluated[i].idx = i
    /\ \A i \in 1..(Len(evaluated) - 1) : evaluated[i].target = Nil
    /\ Len(evaluated) <= Len(cfg.routes)
    /\ phase = "serving" =>
         /\ chosen = Nil
         /\ ruleIdx = Len(evaluated) + 1
         /\ \A i \in 1..Len(evaluated) : evaluated[i].target = Nil
    /\ phase = "routed" =>
         LET k == Len(evaluated) IN
         /\ k >= 1 /\ ruleIdx = k
         /\ chosen # Nil
         /\ chosen = evaluated[k].target
         /\ \A j \in 1..(k - 1) : ~Accepts(cfg.routes[j].rule, Sniffed)
         /\ (cfg.routes[k].rule.kind = "sniMatch"
               /\ cfg.routes[k].rule.targetFunc = Nil)
              => /\ Accepts(cfg.routes[k].rule, Sniffed)
                 /\ chosen = cfg.routes[k].rule.target
    /\ phase = "closed" =>
         /\ chosen = Nil
         /\ Len(evaluated) = Len(cfg.routes)
         /\ \A i \in 1..Len(evaluated) : evaluated[i].target = Nil
         /\ \A j \in 1..Len(cfg.routes) : ~Accepts(cfg.routes[j].rule, Sniffed)

\* two rules accept b.test, and the connection went to the earlier one's
\* target
C1_Witness ==
    /\ phase = "routed"
    /\ Sniffed = "b.test"
    /\ Len(cfg.routes) = 3
    /\ Accepts(cfg.routes[2].rule, "b.test")
    /\ Accepts(cfg.routes[3].rule, "b.test")
    /\ cfg.routes[2].rule.target = "A"
    /\ cfg.routes[3].rule.target = "B"
    /\ chosen = "A"
    /\ Len(evaluated) = 2

\* the listener on which AddSNIRoute registered a.test -> A and b.test -> B
ABListener ==
    /\ cfg.routes = << [id |-> 0, rule |-> acmeMatch],
                       [id |-> 0, rule |-> sniMatch({"a.test"}, "A", Nil)],
                       [id |-> 1, rule |-> sniMatch({"b.test"}, "B", Nil)] >>
    /\ cfg.acmeTargets = <<"A", "B">>

Routed(t) == phase = "routed" /\ chosen = t

\* C2 as stated: on that listener a connection sniffed as a.test goes to A,
\* one sniffed as b.test goes to B, and one sniffed as any other hostname is
\* never routed.
C2_Original ==
    ABListener =>
      /\ phase = "routed" =>
           \/ Sniffed = "a.test" /\ chosen = "A"
           \/ Sniffed = "b.test" /\ chosen = "B"
      /\ phase = "closed" => Sniffed \notin {"a.test", "b.test"}

\* C2: on that listener a connection sniffed as a.test goes to A, one
\* sniffed as b.test goes to B, one sniffed as any other hostname without
\* the suffix .acme.invalid (the empty hostname included) is closed unrouted,
\* and one sniffed as a hostname with the suffix goes only to a backend among
\* A and B whose ACME attempt presented a valid certificate, and is closed
\* unrouted once both attempts have failed.
C2_StaticRoutes ==
    ABListener =>
      /\ phase = "routed" =>
           \/ Sniffed = "a.test" /\ chosen = "A"
           \/ Sniffed = "b.test" /\ chosen = "B"
           \/ /\ HasSuffix(Sniffed, ".acme.invalid")
              /\ \E i \in 1..2 : /\ chosen = cfg.acmeTargets[i]
                                 /\ behav[i] = "valid"
                                 /\ attPc[i] = "done"
      /\ phase = "closed" =>
           /\ Sniffed \notin {"a.test", "b.test"}
           /\ HasSuffix(Sniffed, ".acme.invalid") =>
                \A i \in 1..2 : attPc[i] = "done" /\ behav[i] # "valid"
      /\ (phase = "serving" /\ ruleIdx > 3)
           => /\ Sniffed \notin {"a.test", "b.test"}
              /\ acmePc = "returned" <=> HasSuffix(Sniffed, ".acme.invalid")

C2_Witness ==
    /\ ABListener
    /\ Sniffed = "b.test"
    /\ Routed("B")
    /\ Len(evaluated) = 3

\* attempt k is the only one whose backend presents a valid certificate
OnlyValid(k) ==
    /\ k \in 1..Len(behav)
    /\ behav[k] = "valid"
    /\ \A j \in 1..Len(behav) : j # k => behav[j] # "valid"

\* C9: in a race where exactly one backend K presents a valid certificate,
\* whatever the others do (fail the handshake, present no or a wrong
\* certificate, never answer), acmeMatch.match eventually returns, and it
\* returns K's target.
C9_SingleWinner ==
    \A k \in 1..MaxAcmeTargets :
        (acmePc = "racing" /\ OnlyValid(k))
          ~> ( /\ acmePc = "returned"
               /\ k \in 1..Len(cfg.acmeTargets)
               /\ acmeRet = cfg.acmeTargets[k] )

\* the second backend won while the first never answered
C9_Witness ==
    /\ acmePc = "returned"
    /\ Len(behav) = 2
    /\ behav[1] = "hang" /\ attPc[1] = "running"
    /\ behav[2] = "valid"
    /\ cfg.acmeTargets = <<"A", "B">>
    /\ acmeRet = "B"
    /\ Routed("B")

\* C10: acmeMatch.match returns a target only for a hostname with the suffix
\* .acme.invalid, and the target is an ACME target of the listener whose own
\* attempt presented a valid certificate; for a hostname without the suffix
\* no attempt is ever started; and when every attempt has failed, match
\* returns no target and the loop goes on to the next rule.
C10_AcmeMatchSafety ==
    /\ acmeRet # Nil =>
         /\ HasSuffix(Sniffed, ".acme.invalid")
         /\ acmePc = "returned"
         /\ \E i \in 1..Len(cfg.acmeTargets) :
              /\ cfg.acmeTargets[i] = acmeRet
              /\ behav[i] = "valid"
              /\ attPc[i] = "done"
         /\ Routed(acmeRet)
    /\ ~HasSuffix(Sniffed, ".acme.invalid") =>
         /\ acmePc = "idle"
         /\ attPc = <<>> /\ ch = <<>> /\ nrecv = 0
    /\ acmePc = "racing" => Len(attPc) = Len(cfg.acmeTargets)
    /\ ( /\ acmePc # "idle"
         /\ \A i \in 1..Len(attPc) : behav[i] \notin {"valid", "hang"}
         /\ nrecv = Len(attPc) )
         => /\ acmePc = "returned"
            /\ acmeRet = Nil
            /\ \E i \in 1..Len(evaluated) :
                 /\ IsAcme(i)
                 /\ evaluated[i].target = Nil
                 /\ ruleIdx > i

\* every backend failed, match returned no target, and the rule after the
\* ACME rule took the connection
C10_Witness ==
    /\ acmePc = "returned"
    /\ acmeRet = Nil
    /\ Len(attPc) = 2
    /\ behav = <<"badcert", "hserr">>
    /\ nrecv = 2
    /\ Sniffed = "foo.acme.invalid"
    /\ Len(evaluated) = 2
    /\ phase = "routed"

----------------------------------------------------------------------------
(* Properties of the deadline of an ACME attempt, checked under FairRace *)

\* C11: a backend that never completes the handshake does not block the
\* resolution for ever: the pipe end of every attempt of a race has a
\* deadline, and acmeMatch.match eventually returns from every race, also
\* from one in which no backend presents a valid certificate and some
\* backend never answers.
C11_HangingBackendDoesNotBlock ==
    /\ [](acmePc # "idle" =>
            \A i \in 1..Len(pipeDeadline) : pipeDeadline[i])
    /\ (acmePc = "racing") ~> (acmePc = "returned")

----------------------------------------------------------------------------
(* Properties of the registration of routes, checked under Spec *)

\* the positions of the ACME rules in the rule list of a listener
AcmeRules(c) ==
    {i \in 1..Len(c.routes) : c.routes[i].rule.kind = "acmeMatch"}

\* the rule of a route added by AddSNIRoute or AddSNIMatchRoute
IsSNIMatchRoute(r) == r.kind = "sniMatch" /\ r.targetFunc = Nil

\* the targets of the SNI match routes of a rule list, in order
RECURSIVE SNITargets(_)
SNITargets(routes) ==
    IF routes = <<>> THEN <<>>
    ELSE IF IsSNIMatchRoute(Head(routes).rule)
    THEN <<Head(routes).rule.target>> \o SNITargets(Tail(routes))
    ELSE SNITargets(Tail(routes))

\* the rule list and the ACME-eligible set of a listener, at any time
C12_State ==
    /\ Cardinality(AcmeRules(cfg)) <= 1
    /\ AcmeRules(cfg) # {} <=> cfg.acmeTargets # <<>>
    /\ \A i \in AcmeRules(cfg) :
          /\ i < Len(cfg.routes)
          /\ IsSNIMatchRoute(cfg.routes[i + 1].rule)
          /\ cfg.routes[i + 1].rule.target = cfg.acmeTargets[1]
          /\ \A j \in 1..(i - 1) : ~IsSNIMatchRoute(cfg.routes[j].rule)
    /\ Len(cfg.acmeTargets) <= Len(SNITargets(cfg.routes))
    /\ cfg.acmeTargets =
          SubSeq(SNITargets(cfg.routes), 1, Len(cfg.acmeTargets))

\* what one registration does to the rule list and the ACME-eligible set
C12_Step ==
    cfg' # cfg =>
      /\ SubSeq(cfg'.routes, 1, Len(cfg.routes)) = cfg.routes
      /\ IF cfg'.routes = cfg.routes
         THEN cfg'.acmeTargets = cfg.acmeTargets
         ELSE LET last == cfg'.routes[Len(cfg'.routes)].rule IN
              IF IsSNIMatchRoute(last) /\ ~cfg.stopACME
              THEN /\ cfg'.acmeTargets = Append(cfg.acmeTargets, last.target)
                   /\ IF cfg.acmeTargets = <<>>
                      THEN /\ Len(cfg'.routes) = Len(cfg.routes) + 2
                           /\ AcmeRules(cfg') = {Len(cfg.routes) + 1}
                      ELSE /\ Len(cfg'.routes) = Len(cfg.routes) + 1
                           /\ AcmeRules(cfg') = AcmeRules(cfg)
              ELSE /\ cfg'.acmeTargets = cfg.acmeTargets
                   /\ AcmeRules(cfg') = AcmeRules(cfg)
                   /\ Len(cfg'.routes) = Len(cfg.routes) + 1

\* C12: after any sequence of registrations the rule list holds at most one
\* ACME rule; it is created when the first SNI match route is added while
\* the ACME search is not disabled and sits immediately before that route;
\* every later SNI match route only appends its target to the ACME-eligible
\* set; the ACME rule exists exactly when the set is not empty; and the
\* routes of a dynamic lookup or of a function neither create the ACME rule
\* nor change the set.
C12_SingleAcmeRule == []C12_State /\ [][C12_Step]_vars

\* two SNI match routes: the ACME rule sits before the first of them and
\* both targets are ACME-eligible
C12_Witness ==
    /\ Len(cfg.routes) = 3
    /\ AcmeRules(cfg) = {1}
    /\ IsSNIMatchRoute(cfg.routes[2].rule)
    /\ IsSNIMatchRoute(cfg.routes[3].rule)
    /\ cfg.acmeTargets = <<"A", "B">>

\* what a step does to a listener: AddStopACMESearch itself changes neither
\* the rule list nor the ACME-eligible set, and once ACME search is
\* disabled it stays so and neither the set nor the ACME rule changes
C13_Step ==
    /\ (~cfg.stopACME /\ cfg'.stopACME) =>
           /\ cfg'.routes = cfg.routes
           /\ cfg'.acmeTargets = cfg.acmeTargets
    /\ cfg.stopACME =>
           /\ cfg'.stopACME
           /\ cfg'.acmeTargets = cfg.acmeTargets
           /\ AcmeRules(cfg') = AcmeRules(cfg)

\* C13: AddStopACMESearch prevents the ACME probing of the SNI routes added
\* after it and keeps it for those added before: after the call the
\* ACME-eligible set and the presence of the ACME rule never change again,
\* whatever routes are added (a listener on which it was called before any
\* SNI route never gets an ACME rule), and a race still starts one attempt
\* per target of the set.
C13_StopACMESearch ==
    /\ [](acmePc # "idle" => Len(attPc) = Len(cfg.acmeTargets))
    /\ [](cfg.stopACME /\ cfg.acmeTargets = <<>> => AcmeRules(cfg) = {})
    /\ [][C13_Step]_vars

\* a route to A, AddStopACMESearch, a route to B: the race probed A only,
\* and A answered the challenge
C13_Witness ==
    /\ cfg.stopACME
    /\ Len(cfg.routes) = 3
    /\ cfg.routes[3].rule.target = "B"
    /\ cfg.acmeTargets = <<"A">>
    /\ acmePc = "returned"
    /\ Len(attPc) = 1
    /\ acmeRet = "A"

----------------------------------------------------------------------------
(* Properties of sniffing, checked under SpecSniff *)

\* C14: sniffing never consumes input: after any number of calls of
\* clientHelloServerName and ReadClientHelloInfo the read position of the
\* byte source is where it was before the first call, and any two sniffs of
\* the same connection return the same hostname.
C14_SniffDoesNotConsume ==
    /\ rpos = 0
    /\ \A i, j \in 1..Len(sniffs) :
          /\ sniffs[i].sni = sniffs[j].sni
          /\ sniffs[i].seen = sniffs[j].seen

\* a full handshake record was sniffed twice, with the same hostname
C14_Witness ==
    /\ stream = <<recordTypeHandshake, 0, 0, 0, 1, 1>>
    /\ Len(sniffs) = 2
    /\ sniffs[1].fn = "clientHelloServerName"
    /\ sniffs[1].sni = "a.test"
    /\ sniffs[2].sni = "a.test"
    /\ rpos = 0

\* the record length that bytes 3 and 4 of the stream declare, big-endian
Declared == stream[4] * 256 + stream[5]

\* the stream starts with a handshake record that is there in full
FullHandshakeRecord ==
    /\ Len(stream) >= 5
    /\ stream[1] = 22
    /\ Len(stream) >= 5 + Declared

\* C15: clientHelloServerName is total and returns the empty hostname,
\* without reading past the bytes there are, in each failure case: fewer
\* than 5 bytes can be peeked, byte 0 is not 0x16, or the 5 + length bytes
\* that the big-endian length in bytes 3 and 4 declares cannot be peeked
\* (in these cases ReadClientHelloInfo returns an error); it returns a
\* hostname that is not empty only when the full declared record was peeked
\* from a handshake record.
C15_SniffFailureCases ==
    /\ Len(sniffs) < MaxSniffs => ENABLED SniffServerName
    /\ \A i \in 1..Len(sniffs) :
          /\ sniffs[i].seen <= Len(stream)
          /\ ~FullHandshakeRecord =>
                /\ sniffs[i].sni = ""
                /\ sniffs[i].err = (sniffs[i].fn = "ReadClientHelloInfo")
          /\ sniffs[i].sni # "" =>
                /\ FullHandshakeRecord
                /\ sniffs[i].seen = 5 + Declared
                /\ ~sniffs[i].err

\* a handshake record that declares one byte more than the connection
\* delivers: the empty hostname
C15_Witness ==
    /\ stream = <<22, 0, 0, 0, 1>>
    /\ Len(sniffs) = 2
    /\ sniffs[1].fn = "clientHelloServerName"
    /\ sniffs[1].sni = ""
    /\ sniffs[1].seen = 5
    /\ sniffs[2].fn = "ReadClientHelloInfo"
    /\ sniffs[2].err

----------------------------------------------------------------------------
(* Properties of the rules on one connection, checked under Spec *)

\* C16: when sniffing yields the empty hostname, every rule of the listener,
\* of whatever type, reports a non-match: no evaluated rule yielded a
\* target and the connection is not routed.
C16_EmptyHostnameFallsThrough ==
    Sniffed = "" =>
      /\ \A i \in 1..Len(evaluated) : evaluated[i].target = Nil
      /\ phase # "routed"
      /\ chosen = Nil

\* the rule at position k of the rule list is a dynamic-lookup rule whose
\* resolver is absent, fails, or declines
NoLookup(k) ==
    /\ cfg.routes[k].rule.kind = "dynamicSNIMatch"
    /\ cfg.routes[k].rule.dynMatcher \in {Nil, "lookupErr", "lookupDecline"}

\* C17: a dynamic-lookup rule whose resolver is absent, returns an error, or
\* declines reports a non-match and never a fault: its evaluation always
\* takes place and yields no target, and routing goes on with the rule
\* registered next.
C17_DynamicLookupNonMatch ==
    /\ ( /\ phase = "serving"
         /\ ruleIdx <= Len(cfg.routes)
         /\ NoLookup(ruleIdx) ) => ENABLED ServeRule
    /\ \A i \in 1..Len(evaluated) :
          NoLookup(evaluated[i].idx) =>
            /\ evaluated[i].target = Nil
            /\ ruleIdx > evaluated[i].idx
            /\ i < Len(evaluated) =>
                  evaluated[i + 1].idx = evaluated[i].idx + 1

\* the resolver of the first rule failed and the rule after it took the
\* connection
C17_Witness ==
    /\ Len(cfg.routes) = 2
    /\ cfg.routes[1].rule.kind = "dynamicSNIMatch"
    /\ cfg.routes[1].rule.dynMatcher = "lookupErr"
    /\ Len(evaluated) = 2
    /\ evaluated[1].target = Nil
    /\ Routed("A")

\* C18: every route of a listener has an identity of its own: after any
\* sequence of registrations no two routes of the rule list, the ACME rule
\* included, carry the same route id.
C18_UniqueRouteIds ==
    \A i, j \in 1..Len(cfg.routes) :
        i # j => cfg.routes[i].id # cfg.routes[j].id

----------------------------------------------------------------------------
(* Properties of the attempts of a race, checked under FairRace and Spec *)

\* every attempt of the race has exited with its pipe end closed
AllAttemptsDone ==
    \A i \in 1..Len(attPc) : attPc[i] = "done" /\ ~pipeOpen[i]

\* C19: every attempt of a race, winner or straggler, eventually runs to
\* completion, whether or not match has returned, and an attempt that has
\* reported its outcome has closed its pipe end: no attempt and no pipe
\* stays open for ever.
C19_AttemptsRunToCompletion ==
    /\ [](\A i \in 1..Len(attPc) : attPc[i] = "done" => ~pipeOpen[i])
    /\ (acmePc # "idle") ~> AllAttemptsDone

\* the attempts of the race that have exited
Exited == {i \in 1..Len(attPc) : attPc[i] = "done"}

\* C20: in one race every attempt delivers one outcome to the result channel
\* when it exits and none before (the outcomes sent are as many as the
\* attempts that exited), the channel never holds more outcomes than its
\* capacity, which is the number of attempts started, so the send of an
\* attempt that is still running never finds the channel full, also after
\* match has returned on an earlier yes, and match receives at most one
\* outcome per attempt.
C20_OneOutcomePerAttempt ==
    acmePc # "idle" =>
      /\ chanCap(cfg) = Len(attPc)
      /\ Len(ch) <= chanCap(cfg)
      /\ Len(ch) + nrecv = Cardinality(Exited)
      /\ nrecv <= Len(attPc)
      /\ \A i \in 1..Len(attPc) :
            attPc[i] = "running" => Len(ch) < chanCap(cfg)
      /\ \A i \in 1..Len(attPc) :
            (attPc[i] = "running" /\ behav[i] # "hang") => ENABLED TryACME(i)

\* match returned on the yes of A; the straggler B exited afterwards and its
\* outcome stays in the channel
C20_Witness ==
    /\ acmePc = "returned"
    /\ acmeRet = "A"
    /\ cfg.acmeTargets = <<"A", "B">>
    /\ attPc = <<"done", "done">>
    /\ nrecv = 1
    /\ Len(ch) = 1

----------------------------------------------------------------------------
(* Properties of the static routing file, checked under SpecFile *)

\* a line Read accepts: blank, or a pattern that compiles and a backend
ValidLine(text) ==
    \/ Len(Fields(text)) = 0
    \/ Len(Fields(text)) = 2 /\ Fields(text)[1] # "("

\* the route list a sequence of valid lines stands for
RECURSIVE RoutesOf(_)
RoutesOf(lines) ==
    IF lines = <<>> THEN <<>>
    ELSE LET fs == Fields(Head(lines)) IN
         IF Len(fs) = 2
         THEN <<[match |-> fs[1], backend |-> fs[2]]>> \o RoutesOf(Tail(lines))
         ELSE RoutesOf(Tail(lines))

\* the reader of the current or last Read is valid as a whole
ValidInput ==
    /\ ~input.err
    /\ \A i \in 1..Len(input.lines) : ValidLine(input.lines[i])

\* the backend of the first route of list whose pattern matches host
Answer(list, host) ==
    LET hits == {i \in 1..Len(list) : MatchString(list[i].match, host)} IN
    IF hits = {} THEN ""
    ELSE list[CHOOSE i \in hits : \A j \in hits : i <= j].backend

\* C21: Read is all-or-nothing.  While a Read is under way the route list
\* of the Config is the one loaded before it; a Read whose input has a line
\* of one field, a line of three or more fields, a pattern that does not
\* compile, or a scanner error returns an error and leaves that list in
\* place; only a Read of a fully valid input returns nil, and the list is
\* then the routes of all its lines; and a Match running beside a Read
\* ranges over the list the Config holds, which never changes under it, and
\* answers from it.
C21_ReadAllOrNothing ==
    /\ readPc # "idle" => conf.routes = routesBefore
    /\ readRet = "err" => (conf.routes = routesBefore /\ ~ValidInput)
    /\ readRet = "nil" =>
          (ValidInput /\ conf.routes = RoutesOf(input.lines))
    /\ readRet = "none" => conf.routes = routesBefore
    /\ matchPc = "ranging" =>
          /\ conf.mu = "Match"
          /\ ranged = conf.routes
          /\ readPc # "assigning"
    /\ (matchPc = "idle" /\ matchRet # "none") =>
          matchRet = Answer(ranged, matchHost)

\* the Config held one route; a Read got through a valid line, failed on a
\* line of one field, and left the loaded list, from which a Match then
\* answered
C21_Witness ==
    /\ readPc = "idle"
    /\ readRet = "err"
    /\ input.lines = <<" .*  B ", "a.test">>
    /\ Len(newRoutes) = 1
    /\ conf.routes = <<[match |-> "a.test", backend |-> "A"]>>
    /\ matchPc = "idle"
    /\ matchHost = "a.test"
    /\ ranged = conf.routes
    /\ matchRet = "A"

====
